---- MODULE Spec2Model ----
(***************************************************************************)
(* A model of src/main.py: the Naive Bayes sentiment classifier.           *)
(*                                                                         *)
(* Numbers.  The program works on Python floats.  A float that is the     *)
(* quotient of two integers is modelled by the fraction in lowest terms   *)
(* (2/4 and 1/2 are the same float), the logarithm of such a quotient by  *)
(* the quotient itself, and a sum of logarithms by the product of the     *)
(* quotients: scores are compared as exact real numbers.  A value is a    *)
(* record [ok, n, d]; ok = FALSE stands for a raised exception            *)
(* (ZeroDivisionError, ValueError: math domain error).                     *)
(*                                                                         *)
(* Text.  A raw text is a sequence of raw tokens (what word_tokenize      *)
(* returns for it); the lower-casing, the alphabetic filter, the          *)
(* lemmatizer and the stopword set are modelled on a four-word alphabet.  *)
(***************************************************************************)
EXTENDS Integers, Sequences, FiniteSets, TLC

\* Most documents of one class in the training directory.
MaxDocs == 2
\* Most raw tokens of a text handed to classify.
MaxLen == 2
\* Most test samples of an evaluate pass.
MaxTest == 2

VARIABLES
    corpus,       \* aclImdb/train: [pos |-> documents, neg |-> documents]
    file,         \* _nbc_params.pickle: [exists, data]
    pc,           \* where the process is
    flags,        \* should_retrain, should_use_stopwords, should_lemmatize
    params,       \* self.params
    defs,         \* self.def_pos_ll, self.def_neg_ll
    call,         \* the last classify call of the command line: text and outcome
    conf,         \* evaluate's tp, tn, fp, fn
    out,          \* the EVALUATION lines printed
    lastTrained,  \* history: what the most recent completed training wrote
    ctor          \* history: what this process's constructor did

vars == <<corpus, file, pc, flags, params, defs, call, conf, out, lastTrained, ctor>>

-----------------------------------------------------------------------------
(* Arithmetic *)

RECURSIVE GCD(_, _)
GCD(a, b) == IF b = 0 THEN a ELSE GCD(b, a % b)

Raise == [ok |-> FALSE, n |-> 0, d |-> 1]

\* The float n/d, d > 0.
Ratio(n, d) == LET g == GCD(n, d) IN [ok |-> TRUE, n |-> n \div g, d |-> d \div g]

\* Python's a / b on integers: ZeroDivisionError when b = 0.
Div(a, b) == IF b = 0 THEN Raise ELSE Ratio(a, b)

\* The variant of Log below that returns a value (minus infinity) for 0.
LogNoDomainError(x) == x

\* math.log(x): ValueError when x = 0.  The logarithm of n/d is kept as n/d.
Log(x) == IF x.ok /\ x.n = 0 THEN Raise ELSE x

\* The float 0, as a score or a likelihood: log 1.
Zero == Ratio(1, 1)

\* a + b on two logarithms.
LogAdd(a, b) == Ratio(a.n * b.n, a.d * b.d)

\* a > b on two logarithms (or two fractions).
Greater(a, b) == a.n * b.d > b.n * a.d

\* a * b, a + b, a / b on floats that are fractions.
FMul(a, b) == Ratio(a.n * b.n, a.d * b.d)
FAdd(a, b) == Ratio(a.n * b.d + b.n * a.d, a.d * b.d)
FDiv(a, b) == IF b.n = 0 THEN Raise ELSE Ratio(a.n * b.d, a.d * b.n)

-----------------------------------------------------------------------------
(* tokenize *)

RawTokens == {"Films", "bad", "the", "7"}

\* str.lower
Lower(tok) == IF tok = "Films" THEN "films" ELSE tok

\* re.search(r'[a-z]', token)
HasLetter(tok) == tok # "7"

\* WordNetLemmatizer.lemmatize
Lemmatize(tok) == IF tok = "films" THEN "film" ELSE tok

\* nltk's English stopwords (the one of them in the alphabet) plus 's, 've, br
StopWords == {"the", "'s", "'ve", "br"}

tokenize(text, sw, lem) ==
    LET lowered == [i \in 1..Len(text) |-> Lower(text[i])]
        words   == SelectSeq(lowered, HasLetter)
        lemmas  == IF lem THEN [i \in 1..Len(words) |-> Lemmatize(words[i])] ELSE words
        NotStop(t) == t \notin StopWords
    IN  IF sw THEN SelectSeq(lemmas, NotStop) ELSE lemmas

-----------------------------------------------------------------------------
(* Counter *)

Range(s) == {s[i] : i \in 1..Len(s)}

\* Counter(tokens)
Counter(tokens) ==
    [w \in Range(tokens) |-> Cardinality({i \in 1..Len(tokens) : tokens[i] = w})]

\* counter[w]: 0 for a missing key
Count(c, w) == IF w \in DOMAIN c THEN c[w] ELSE 0

\* The variant of CounterAdd below that keeps b's count of a word of both
\* (dict.update in place of +=).
CounterUpdate(a, b) ==
    [w \in (DOMAIN a) \cup (DOMAIN b) |-> IF w \in DOMAIN b THEN b[w] ELSE a[w]]

\* a += b on Counters
CounterAdd(a, b) == [w \in (DOMAIN a) \cup (DOMAIN b) |-> Count(a, w) + Count(b, w)]

\* The bag of words of a class: the loop over its samples.
RECURSIVE BagOfWords(_, _, _)
BagOfWords(docs, sw, lem) ==
    IF docs = <<>> THEN <<>>
    ELSE CounterAdd(BagOfWords(SubSeq(docs, 1, Len(docs) - 1), sw, lem),
                    Counter(tokenize(docs[Len(docs)], sw, lem)))

\* sum(counter.values())
RECURSIVE SumValues(_)
SumValues(c) ==
    IF DOMAIN c = {} THEN 0
    ELSE LET w == CHOOSE w \in DOMAIN c : TRUE
         IN  c[w] + SumValues([v \in (DOMAIN c) \ {w} |-> c[v]])

-----------------------------------------------------------------------------
(* The model parameters and _train_model *)

\* self.params as __init__ sets it
InitialParams ==
    [pos_prior |-> Zero, neg_prior |-> Zero,
     n_pos_words |-> 0, n_neg_words |-> 0, n_vocab |-> 0,
     pos_likelihood |-> <<>>, neg_likelihood |-> <<>>]

\* The loop "for word in vocabulary": math.log(frequency / denominator)
Likelihoods(bow, vocabulary, denominator) ==
    [w \in vocabulary |-> Log(Div(Count(bow, w) + 1, denominator))]

\* _train_model up to the assignments to self.params: [ok, params]; ok = FALSE
\* when an expression raised, and then nothing was assigned.
TrainModel(c, sw, lem) ==
    LET n_pos_train == Len(c.pos)
        n_neg_train == Len(c.neg)
        pos_bow     == BagOfWords(c.pos, sw, lem)
        neg_bow     == BagOfWords(c.neg, sw, lem)
        n_samples   == n_pos_train + n_neg_train
        pos_prior   == Log(Div(n_pos_train, n_samples))
        neg_prior   == Log(Div(n_neg_train, n_samples))
        n_pos_words == SumValues(pos_bow)
        n_neg_words == SumValues(neg_bow)
        vocabulary  == (DOMAIN pos_bow) \cup (DOMAIN neg_bow)
        n_vocab     == Cardinality(vocabulary)
        pos_likelihood == Likelihoods(pos_bow, vocabulary, n_pos_words + n_vocab)
        neg_likelihood == Likelihoods(neg_bow, vocabulary, n_neg_words + n_vocab)
    IN  IF pos_prior.ok /\ neg_prior.ok
           /\ \A w \in vocabulary : pos_likelihood[w].ok /\ neg_likelihood[w].ok
        THEN [ok |-> TRUE,
              params |-> [pos_prior |-> pos_prior, neg_prior |-> neg_prior,
                          n_pos_words |-> n_pos_words, n_neg_words |-> n_neg_words,
                          n_vocab |-> n_vocab,
                          pos_likelihood |-> pos_likelihood,
                          neg_likelihood |-> neg_likelihood]]
        ELSE [ok |-> FALSE, params |-> InitialParams]

\* __init__, after _init_params: the default likelihoods of unknown words
DefaultLikelihoods(p) ==
    [def_pos_ll |-> Log(Div(1, p.n_pos_words + p.n_vocab)),
     def_neg_ll |-> Log(Div(1, p.n_neg_words + p.n_vocab))]

\* Before __init__ reaches them the two attributes do not exist.
NoDefaults == [def_pos_ll |-> Raise, def_neg_ll |-> Raise]

-----------------------------------------------------------------------------
(* pickle *)

Scalar(key, n, d) == [key |-> key, n |-> n, d |-> d, items |-> {}]
Dict(key, m) ==
    [key |-> key, n |-> 0, d |-> 0, items |-> {<<w, m[w].n, m[w].d>> : w \in DOMAIN m}]

\* pickle.dump(self.params, f): the record's entries in the dict's order, then
\* the STOP opcode that ends every pickle.
Serialize(p) ==
    << Scalar("pos_prior", p.pos_prior.n, p.pos_prior.d),
       Scalar("neg_prior", p.neg_prior.n, p.neg_prior.d),
       Scalar("n_pos_words", p.n_pos_words, 1),
       Scalar("n_neg_words", p.n_neg_words, 1),
       Scalar("n_vocab", p.n_vocab, 1),
       Dict("pos_likelihood", p.pos_likelihood),
       Dict("neg_likelihood", p.neg_likelihood),
       Scalar("STOP", 0, 0) >>

Entry(data, key) == data[CHOOSE i \in 1..Len(data) : data[i].key = key]
FloatOf(e) == [ok |-> TRUE, n |-> e.n, d |-> e.d]
DictOf(e) ==
    [w \in {t[1] : t \in e.items} |->
        LET t == CHOOSE t \in e.items : t[1] = w IN [ok |-> TRUE, n |-> t[2], d |-> t[3]]]

\* pickle.load(f): [ok, params]; a stream that does not end in STOP raises
\* (EOFError, UnpicklingError: pickle data was truncated).
Deserialize(data) ==
    IF Len(data) = 0 \/ data[Len(data)].key # "STOP"
    THEN [ok |-> FALSE, params |-> InitialParams]
    ELSE [ok |-> TRUE,
          params |-> [pos_prior |-> FloatOf(Entry(data, "pos_prior")),
                      neg_prior |-> FloatOf(Entry(data, "neg_prior")),
                      n_pos_words |-> Entry(data, "n_pos_words").n,
                      n_neg_words |-> Entry(data, "n_neg_words").n,
                      n_vocab |-> Entry(data, "n_vocab").n,
                      pos_likelihood |-> DictOf(Entry(data, "pos_likelihood")),
                      neg_likelihood |-> DictOf(Entry(data, "neg_likelihood"))]]

NoFile == [exists |-> FALSE, data |-> <<>>]

-----------------------------------------------------------------------------
(* classify *)

\* The variant of Lookup below that subscripts the defaultdict(float): a
\* missing key is inserted with the value 0.0, which is returned.
LookupInserting(d, w, default) ==
    [value |-> IF w \in DOMAIN d THEN d[w] ELSE Zero,
     dict |-> [v \in (DOMAIN d) \cup {w} |-> IF v \in DOMAIN d THEN d[v] ELSE Zero]]

\* d.get(w, default): the value, and the dictionary afterwards.
Lookup(d, w, default) ==
    [value |-> IF w \in DOMAIN d THEN d[w] ELSE default, dict |-> d]

\* One pass of the loop "for word in words", from state st, with the sanity
\* check after every word; st.raised ends it.
RECURSIVE Accumulate(_, _, _)
Accumulate(words, st, df) ==
    IF words = <<>> \/ st.raised THEN st
    ELSE LET p == Lookup(st.pos_likelihood, Head(words), df.def_pos_ll)
             q == Lookup(st.neg_likelihood, Head(words), df.def_neg_ll)
             positive == LogAdd(st.positive, p.value)
             negative == LogAdd(st.negative, q.value)
         IN  Accumulate(Tail(words),
                        [positive |-> positive, negative |-> negative,
                         raised |-> positive = Zero \/ negative = Zero
                                    \/ positive = negative,
                         pos_likelihood |-> p.dict, neg_likelihood |-> q.dict],
                        df)

\* The variant of classify below that tokenizes with the constructor's default
\* flags instead of the object's.
classifyDefaultFlags(p, df, fl, text) ==
    LET words == tokenize(text, TRUE, TRUE)
        st == Accumulate(words,
                         [positive |-> p.pos_prior, negative |-> p.neg_prior,
                          raised |-> FALSE,
                          pos_likelihood |-> p.pos_likelihood,
                          neg_likelihood |-> p.neg_likelihood],
                         df)
    IN  [words |-> words,
         raised |-> st.raised,
         label |-> IF st.raised THEN 0
                   ELSE IF Greater(st.positive, st.negative) THEN 1 ELSE -1,
         pos_likelihood |-> st.pos_likelihood,
         neg_likelihood |-> st.neg_likelihood]

\* NaiveBayesClassifier.classify: [words, raised, label, pos_likelihood,
\* neg_likelihood]; words are the tokens scored, label is 1 or -1, and 0 when
\* the call raised.
classify(p, df, fl, text) ==
    LET words == tokenize(text, fl.should_use_stopwords, fl.should_lemmatize)
        st == Accumulate(words,
                         [positive |-> p.pos_prior, negative |-> p.neg_prior,
                          raised |-> FALSE,
                          pos_likelihood |-> p.pos_likelihood,
                          neg_likelihood |-> p.neg_likelihood],
                         df)
    IN  [words |-> words,
         raised |-> st.raised,
         label |-> IF st.raised THEN 0
                   ELSE IF Greater(st.positive, st.negative) THEN 1 ELSE -1,
         pos_likelihood |-> st.pos_likelihood,
         neg_likelihood |-> st.neg_likelihood]

-----------------------------------------------------------------------------
(* evaluate *)

NoCounts == [tp |-> 0, tn |-> 0, fp |-> 0, fn |-> 0]

\* The body of the loop over the test samples, after the prediction.
Tally(c, actual, prediction) ==
    IF actual = 1
    THEN IF prediction = 1 THEN [c EXCEPT !.tp = @ + 1] ELSE [c EXCEPT !.fn = @ + 1]
    ELSE IF prediction = 1 THEN [c EXCEPT !.fp = @ + 1] ELSE [c EXCEPT !.tn = @ + 1]

Line(name, v) == [name |-> name, n |-> v.n, d |-> v.d]

\* The variant of Report below that prints each metric as soon as it is
\* computed.
ReportEager(c) ==
    LET precision == Div(c.tp, c.tp + c.fp)
        recall    == Div(c.tp, c.tp + c.fn)
        f_measure == IF precision.ok /\ recall.ok
                     THEN FDiv(FMul(FMul(Ratio(2, 1), precision), recall),
                               FAdd(precision, recall))
                     ELSE Raise
        accuracy  == Div(c.tp + c.tn, c.tp + c.fp + c.tn + c.fn)
    IN  IF ~precision.ok THEN [raised |-> TRUE, out |-> <<>>]
        ELSE IF ~recall.ok
             THEN [raised |-> TRUE, out |-> << Line("Precision", precision) >>]
        ELSE IF ~f_measure.ok
             THEN [raised |-> TRUE,
                   out |-> << Line("Precision", precision), Line("Recall", recall) >>]
        ELSE [raised |-> ~accuracy.ok,
              out |-> << Line("Precision", precision), Line("Recall", recall),
                         Line("F-measure", f_measure) >>
                      \o (IF accuracy.ok THEN << Line("Accuracy", accuracy) >> ELSE <<>>)]

\* The end of evaluate: the four metrics are computed, then the four lines are
\* printed.  [raised, out]
Report(c) ==
    LET precision == Div(c.tp, c.tp + c.fp)
        recall    == Div(c.tp, c.tp + c.fn)
        f_measure == IF precision.ok /\ recall.ok
                     THEN FDiv(FMul(FMul(Ratio(2, 1), precision), recall),
                               FAdd(precision, recall))
                     ELSE Raise
        accuracy  == Div(c.tp + c.tn, c.tp + c.fp + c.tn + c.fn)
    IN  IF precision.ok /\ recall.ok /\ f_measure.ok /\ accuracy.ok
        THEN [raised |-> FALSE,
              out |-> << Line("Precision", precision), Line("Recall", recall),
                         Line("F-measure", f_measure), Line("Accuracy", accuracy) >>]
        ELSE [raised |-> TRUE, out |-> <<>>]

-----------------------------------------------------------------------------
(* Inputs *)

\* The reviews a training directory is made of.
DocPool ==
    { <<"Films", "the">>, <<"bad", "the">>, <<"the", "7">>, <<"Films", "Films", "bad">> }

SeqsUpTo(S, n) == UNION {[1..k -> S] : k \in 0..n}

\* Every training directory of at most MaxDocs reviews a class.
Corpora == [pos : SeqsUpTo(DocPool, MaxDocs), neg : SeqsUpTo(DocPool, MaxDocs)]

\* The training directories of the runs that follow one another: one review a
\* class, more positive than negative reviews, reviews that normalize to
\* nothing under the stopword filter, and a class without a review.
SomeCorpora ==
    { [pos |-> << <<"Films", "the">> >>, neg |-> << <<"bad", "the">> >>],
      [pos |-> << <<"Films", "the">>, <<"Films", "Films", "bad">> >>,
       neg |-> << <<"bad", "the">> >>],
      [pos |-> << <<"the", "7">> >>,      neg |-> << <<"the", "7">> >>],
      [pos |-> <<>>,                      neg |-> << <<"bad", "the">> >>],
      [pos |-> << <<"Films", "the">> >>,  neg |-> <<>>] }

\* The texts handed to classify, and the test reviews.
Texts == SeqsUpTo(RawTokens, MaxLen)

-----------------------------------------------------------------------------
(* The process *)

NoFlags == [should_retrain |-> FALSE, should_use_stopwords |-> TRUE,
            should_lemmatize |-> TRUE]
NoCall == [made |-> FALSE, text |-> <<>>, words |-> <<>>, raised |-> FALSE, label |-> 0]
NoTraining == [valid |-> FALSE, params |-> InitialParams,
               stopwords |-> TRUE, lemmatize |-> TRUE]
NoCtor == [path |-> "none", found |-> FALSE, writes |-> 0,
           stopwords |-> TRUE, lemmatize |-> TRUE]

\* No process: nothing in memory.
NoProcess ==
    /\ pc' = "idle"
    /\ flags' = NoFlags
    /\ params' = InitialParams
    /\ defs' = NoDefaults
    /\ call' = NoCall
    /\ conf' = NoCounts
    /\ out' = <<>>
    /\ ctor' = NoCtor

\* The variant of ShouldLoad below that forgets the retrain flag.
ShouldLoadIfFile(isfile, should_retrain) == isfile

\* _init_params: whether the saved parameters are loaded.
ShouldLoad(isfile, should_retrain) == isfile /\ ~should_retrain

\* __init__ after _init_params returned: the default likelihoods; 1 / 0 raises
\* and the constructor returns no object.
FinishInit(p) ==
    LET d == DefaultLikelihoods(p)
    IN  IF d.def_pos_ll.ok /\ d.def_neg_ll.ok
        THEN pc' = "ready" /\ defs' = d
        ELSE pc' = "ctor_failed" /\ defs' = NoDefaults

\* A command starts: NaiveBayesClassifier(retrain, stopwords, lemmatize), up to
\* the end of __init__ when the parameters are loaded, and up to the open() of
\* _train_model, which truncates the file, when the model is trained.
Start(retrain, sw, lem) ==
    /\ pc = "idle"
    /\ flags' = [should_retrain |-> retrain, should_use_stopwords |-> sw,
                 should_lemmatize |-> lem]
    /\ IF ShouldLoad(file.exists, retrain)
       THEN LET r == Deserialize(file.data)
            IN  /\ params' = r.params
                /\ file' = file
                /\ ctor' = [path |-> "load", found |-> file.exists, writes |-> 0,
                            stopwords |-> lastTrained.stopwords,
                            lemmatize |-> lastTrained.lemmatize]
                /\ IF r.ok THEN FinishInit(r.params)
                   ELSE pc' = "ctor_failed" /\ defs' = NoDefaults
       ELSE LET t == TrainModel(corpus, sw, lem)
            IN  /\ params' = t.params
                /\ defs' = NoDefaults
                /\ ctor' = [path |-> "train", found |-> file.exists, writes |-> 0,
                            stopwords |-> sw, lemmatize |-> lem]
                /\ IF t.ok
                   THEN pc' = "writing" /\ file' = [exists |-> TRUE, data |-> <<>>]
                   ELSE pc' = "ctor_failed" /\ file' = file
    /\ UNCHANGED <<corpus, call, conf, out, lastTrained>>

\* pickle.dump and the close of the file, then the rest of __init__.
Dump ==
    /\ pc = "writing"
    /\ file' = [exists |-> TRUE, data |-> Serialize(params)]
    /\ lastTrained' = [valid |-> TRUE, params |-> params,
                       stopwords |-> flags.should_use_stopwords,
                       lemmatize |-> flags.should_lemmatize]
    /\ ctor' = [ctor EXCEPT !.writes = @ + 1]
    /\ FinishInit(params)
    /\ UNCHANGED <<corpus, flags, params, call, conf, out>>

\* The process is killed while the file is open for writing: what was written
\* so far stays.
Interrupt ==
    /\ pc = "writing"
    /\ \E k \in 0..(Len(Serialize(params)) - 1) :
          file' = [exists |-> TRUE, data |-> SubSeq(Serialize(params), 1, k)]
    /\ NoProcess
    /\ UNCHANGED <<corpus, lastTrained>>

\* model.classify(text), from the command line or from a caller of the object.
Classify(text) ==
    /\ pc = "ready"
    /\ LET r == classify(params, defs, flags, text)
       IN  /\ call' = [made |-> TRUE, text |-> text, words |-> r.words,
                       raised |-> r.raised, label |-> r.label]
           /\ params' = [params EXCEPT !.pos_likelihood = r.pos_likelihood,
                                       !.neg_likelihood = r.neg_likelihood]
    /\ UNCHANGED <<corpus, file, pc, flags, defs, conf, out, lastTrained, ctor>>

\* evaluate: one test sample.  A classify that raises ends evaluate.
EvalSample(text, actual) ==
    /\ \/ pc = "ready" /\ ~call.made
       \/ pc = "evaluating"
    /\ conf.tp + conf.tn + conf.fp + conf.fn < MaxTest
    /\ LET r == classify(params, defs, flags, text)
       IN  /\ params' = [params EXCEPT !.pos_likelihood = r.pos_likelihood,
                                       !.neg_likelihood = r.neg_likelihood]
           /\ IF r.raised
              THEN pc' = "eval_failed" /\ conf' = conf
              ELSE pc' = "evaluating" /\ conf' = Tally(conf, actual, r.label)
    /\ UNCHANGED <<corpus, file, flags, defs, call, out, lastTrained, ctor>>

\* evaluate: the test samples are exhausted.
EvalReport ==
    /\ \/ pc = "ready" /\ ~call.made
       \/ pc = "evaluating"
    /\ LET r == Report(conf)
       IN  /\ out' = r.out
           /\ pc' = IF r.raised THEN "report_failed" ELSE "reported"
    /\ UNCHANGED <<corpus, file, flags, params, defs, call, conf, lastTrained, ctor>>

\* The process ends.
Exit ==
    /\ pc \in {"ctor_failed", "ready", "evaluating", "eval_failed", "report_failed",
              "reported"}
    /\ NoProcess
    /\ UNCHANGED <<corpus, file, lastTrained>>

\* Between two runs the training directory is replaced.
CorpusChanges ==
    /\ pc = "idle"
    /\ corpus' \in SomeCorpora \ {corpus}
    /\ UNCHANGED <<file, pc, flags, params, defs, call, conf, out, lastTrained, ctor>>

InitProcess ==
    /\ file = NoFile
    /\ pc = "idle"
    /\ flags = NoFlags
    /\ params = InitialParams
    /\ defs = NoDefaults
    /\ call = NoCall
    /\ conf = NoCounts
    /\ out = <<>>
    /\ lastTrained = NoTraining
    /\ ctor = NoCtor

Init == corpus \in SomeCorpora /\ InitProcess

Next ==
    \/ \E retrain \in BOOLEAN, sw \in BOOLEAN, lem \in BOOLEAN : Start(retrain, sw, lem)
    \/ Dump
    \/ Interrupt
    \/ \E text \in Texts : Classify(text)
    \/ \E text \in Texts, actual \in {1, -1} : EvalSample(text, actual)
    \/ EvalReport
    \/ Exit
    \/ CorpusChanges

Spec == Init /\ [][Next]_vars

\* One construction, on any training directory.
InitTrain == corpus \in Corpora /\ InitProcess

NextTrain ==
    \/ \E retrain \in BOOLEAN, sw \in BOOLEAN, lem \in BOOLEAN : Start(retrain, sw, lem)
    \/ Dump

SpecTrain == InitTrain /\ [][NextTrain]_vars

-----------------------------------------------------------------------------
(* What the claims are stated with *)

\* The process holds a constructed model.
Constructed == pc \in {"ready", "evaluating", "eval_failed", "report_failed", "reported"}

\* _train_model has assigned self.params in this process.
Trained == ctor.path = "train" /\ (pc = "writing" \/ ctor.writes = 1)

\* The token occurrences of a class: (document, position) pairs.
Occurrences(docs, sw, lem) ==
    UNION { { <<i, j>> : j \in 1..Len(tokenize(docs[i], sw, lem)) } : i \in 1..Len(docs) }

WordAt(docs, sw, lem, o) == tokenize(docs[o[1]], sw, lem)[o[2]]

\* count_class(w)
Occurs(docs, sw, lem, w) ==
    Cardinality({o \in Occurrences(docs, sw, lem) : WordAt(docs, sw, lem, o) = w})

WordsOf(docs, sw, lem) ==
    {WordAt(docs, sw, lem, o) : o \in Occurrences(docs, sw, lem)}

\* The float v is the quotient a / b.
IsQuotient(v, a, b) == v.ok /\ v.n * b = a * v.d

\* C1: when both classes of the training directory hold at least one document,
\* _train_model assigns parameters that depend on the two bags of words only:
\* the word totals are the token occurrences of each class, n_vocab is the size
\* of the union of the words of both, both likelihood maps have that union as
\* their key set, each stored value is log((count+1)/(n_class_words+n_vocab))
\* with count 0 for a word absent from the class, and the priors are
\* log(nPosDocs/totalDocs) and log(nNegDocs/totalDocs).
C1_TrainedParameters ==
    (ctor.path = "train" /\ corpus.pos # <<>> /\ corpus.neg # <<>>) =>
        LET sw    == flags.should_use_stopwords
            lem   == flags.should_lemmatize
            nPos  == Cardinality(Occurrences(corpus.pos, sw, lem))
            nNeg  == Cardinality(Occurrences(corpus.neg, sw, lem))
            vocab == WordsOf(corpus.pos, sw, lem) \cup WordsOf(corpus.neg, sw, lem)
            nV    == Cardinality(vocab)
            total == Len(corpus.pos) + Len(corpus.neg)
        IN  /\ Trained
            /\ params.n_pos_words = nPos
            /\ params.n_neg_words = nNeg
            /\ params.n_vocab = nV
            /\ DOMAIN params.pos_likelihood = vocab
            /\ DOMAIN params.neg_likelihood = vocab
            /\ \A w \in vocab :
                  /\ IsQuotient(params.pos_likelihood[w],
                                Occurs(corpus.pos, sw, lem, w) + 1, nPos + nV)
                  /\ IsQuotient(params.neg_likelihood[w],
                                Occurs(corpus.neg, sw, lem, w) + 1, nNeg + nV)
            /\ IsQuotient(params.pos_prior, Len(corpus.pos), total)
            /\ IsQuotient(params.neg_prior, Len(corpus.neg), total)

\* C1's case: two documents of a class share a word, a word of the vocabulary
\* is absent from one class, and the parameters are assigned.
C1_Witness ==
    /\ Trained
    /\ Len(corpus.pos) = 2 /\ corpus.pos[1] # corpus.pos[2]
    /\ \E w \in DOMAIN params.pos_likelihood :
          /\ Occurs(corpus.pos, flags.should_use_stopwords, flags.should_lemmatize, w) > 2
          /\ w \in Range(tokenize(corpus.pos[1], flags.should_use_stopwords,
                                  flags.should_lemmatize))
          /\ w \in Range(tokenize(corpus.pos[2], flags.should_use_stopwords,
                                  flags.should_lemmatize))
    /\ \E w \in DOMAIN params.neg_likelihood :
          Occurs(corpus.neg, flags.should_use_stopwords, flags.should_lemmatize, w) = 0

\* C4: when a class of the training directory is empty, a constructor that
\* trains ends in an error: self.params keeps the values __init__ gave it, the
\* saved file is neither created nor overwritten (no record is written), and no
\* model is returned.
C4_EmptyClassFailsTraining ==
    [][ (pc = "idle" /\ ctor'.path = "train"
         /\ (corpus.pos = <<>> \/ corpus.neg = <<>>))
        => (/\ pc' = "ctor_failed"
            /\ params' = InitialParams
            /\ file' = file
            /\ lastTrained' = lastTrained) ]_vars

\* C4's case: a constructor told to retrain failed on an empty class while a
\* complete saved record existed.
C4_Witness ==
    /\ pc = "ctor_failed"
    /\ ctor.path = "train"
    /\ corpus.pos = <<>> \/ corpus.neg = <<>>
    /\ file.exists /\ Deserialize(file.data).ok

\* The saved file holds a complete record.
Whole == file.exists /\ Deserialize(file.data).ok

\* C5 (as stated): an interrupted training leaves the saved file absent or
\* whole, so a later start-up with retrain = false trains again when the
\* training was interrupted and never loads, or fails on, a truncated record:
\* the file a constructor loads is a whole record.
C5_AllOrNothing == ctor.path = "load" => Whole

\* C10 (as stated): a record that a completed training wrote has positive
\* denominators n_pos_words + n_vocab and n_neg_words + n_vocab, and the
\* constructor that wrote it, or one that loads it, succeeds.
C10_WrittenRecordUsable ==
    /\ lastTrained.valid =>
          /\ lastTrained.params.n_pos_words + lastTrained.params.n_vocab > 0
          /\ lastTrained.params.n_neg_words + lastTrained.params.n_vocab > 0
    /\ (ctor.writes = 1 \/ (ctor.path = "load" /\ Whole)) => pc # "ctor_failed"

\* C6: once the constructor has returned, nothing the process does (classify
\* calls that return or raise, the steps of evaluate) changes the parameters,
\* the default likelihoods or the saved file; the saved file changes only
\* inside _train_model.
C6_ParametersFrozen ==
    [][ /\ (Constructed /\ pc' # "idle") =>
              (params' = params /\ defs' = defs /\ file' = file
               /\ lastTrained' = lastTrained)
        /\ file' # file => (ctor'.path = "train" \/ pc = "writing") ]_vars

\* C6's case: a classify call on a text with a word outside the vocabulary
\* has returned, on a trained model.
C6_Witness ==
    /\ pc = "ready" /\ call.made /\ ~call.raised
    /\ params.n_vocab > 0
    /\ \E i \in 1..Len(call.words) : call.words[i] \notin DOMAIN params.pos_likelihood

ZeroDenominator(c) ==
    \/ c.tp + c.fp = 0
    \/ c.tp + c.fn = 0
    \/ c.tp * (c.tp + c.fn) + c.tp * (c.tp + c.fp) = 0
    \/ c.tp + c.fp + c.tn + c.fn = 0

\* C8: when the test samples are counted and a denominator of a metric is zero,
\* evaluate ends in an error and prints none of the four metrics; the metrics
\* are printed only when all four are defined, and then with their values.
C8_UndefinedMetricFails ==
    /\ (pc \in {"reported", "report_failed"} /\ ZeroDenominator(conf)) =>
          pc = "report_failed"
    /\ pc # "reported" => out = <<>>
    /\ pc = "reported" =>
          /\ Len(out) = 4
          /\ out[1].name = "Precision" /\ out[1].n * (conf.tp + conf.fp) = conf.tp * out[1].d
          /\ out[2].name = "Recall" /\ out[2].n * (conf.tp + conf.fn) = conf.tp * out[2].d
          /\ out[3].name = "F-measure"
          /\ out[3].n * (2 * conf.tp + conf.fp + conf.fn) = 2 * conf.tp * out[3].d
          /\ out[4].name = "Accuracy"
          /\ out[4].n * (conf.tp + conf.fp + conf.tn + conf.fn)
                = (conf.tp + conf.tn) * out[4].d

\* C8's case: precision and recall are defined and both 0, so that the
\* F-measure is not, and evaluate has failed.
C8_Witness ==
    /\ pc = "report_failed"
    /\ conf.tp = 0 /\ conf.fp > 0 /\ conf.fn > 0

\* The process has scored a text.
Scored == (pc = "ready" /\ call.made) \/ pc \in {"evaluating", "eval_failed"}

\* C9 (as stated): whenever a text is scored, the stopwords and lemmatize flags
\* of the process are those of the training run that produced the parameters
\* in memory.
C9_SameConfiguration ==
    Scored => (/\ flags.should_use_stopwords = ctor.stopwords
               /\ flags.should_lemmatize = ctor.lemmatize)

\* C9 (amended): a classify call normalizes its text with the flags given to
\* the constructor of the running process; these are the flags of the training
\* run that produced the parameters when that constructor trained.
C9_ConfigurationOfThisRun ==
    /\ call.made =>
          call.words = tokenize(call.text, flags.should_use_stopwords,
                                flags.should_lemmatize)
    /\ (Scored /\ ctor.path = "train") =>
          /\ flags.should_use_stopwords = ctor.stopwords
          /\ flags.should_lemmatize = ctor.lemmatize
          /\ params = TrainModel(corpus, flags.should_use_stopwords,
                                 flags.should_lemmatize).params

\* C9's case: a model that was trained by its own constructor with both
\* filters off has scored a text that the filters would change.
C9_Witness ==
    /\ pc = "ready" /\ call.made /\ ctor.path = "train"
    /\ ~flags.should_use_stopwords /\ ~flags.should_lemmatize
    /\ call.words # tokenize(call.text, TRUE, TRUE)

\* The final score of a class, prior plus the likelihood of every word (the
\* default likelihood for a word outside the vocabulary), as the pair of the
\* product of the numerators and the product of the denominators.
RECURSIVE FinalScore(_, _, _, _)
FinalScore(prior, likelihood, default, words) ==
    IF words = <<>> THEN <<prior.n, prior.d>>
    ELSE LET ll   == IF Head(words) \in DOMAIN likelihood
                     THEN likelihood[Head(words)] ELSE default
             rest == FinalScore(prior, likelihood, default, Tail(words))
         IN  <<ll.n * rest[1], ll.d * rest[2]>>

FinalPositive == FinalScore(params.pos_prior, params.pos_likelihood, defs.def_pos_ll, call.words)
FinalNegative == FinalScore(params.neg_prior, params.neg_likelihood, defs.def_neg_ll, call.words)

\* A final score is 0, or the two final scores are equal.
ZeroOrTied ==
    \/ FinalPositive[1] = FinalPositive[2]
    \/ FinalNegative[1] = FinalNegative[2]
    \/ FinalPositive[1] * FinalNegative[2] = FinalNegative[1] * FinalPositive[2]

\* C2 (as stated): a classify call whose final positive score is 0, or whose
\* final negative score is 0, or whose final scores are equal, raises and
\* returns no label, a text without tokens under equal priors included.
C2_ZeroOrTieRaises ==
    (pc = "ready" /\ call.made /\ ZeroOrTied) => (call.raised /\ call.label = 0)

\* C3 (as stated): a classify call whose final scores are nonzero and differ
\* returns 1 when the final positive score is the greater and -1 otherwise,
\* whatever the partial sums before the last token were.
C3_DecidedByFinalScores ==
    (pc = "ready" /\ call.made /\ ~ZeroOrTied) =>
        /\ ~call.raised
        /\ call.label = IF FinalPositive[1] * FinalNegative[2]
                            > FinalNegative[1] * FinalPositive[2]
                         THEN 1 ELSE -1

====
